---- MODULE Spec2Model ----
(***************************************************************************)
(* Model of plugins/inventory/netcup.py: the Netcup SCP inventory plugin.  *)
(* One run of InventoryModule.parse is a state machine whose steps are the *)
(* remote calls (getVServers, getVServerInformation) and the processing of *)
(* one fetched record by _parse_server.  The inventory (the sink) is the   *)
(* host/group/variable store the plugin writes to; `trace` is the ordered  *)
(* history of every remote call and every inventory call of the run.       *)
(***************************************************************************)
EXTENDS Naturals, Sequences, FiniteSets

\* options      the plugin options get_option returns (lines 37-131)
\* pc           where parse is: "parse" (before the listing call), "listed"
\*              (listing returned), "loop" (before the next detail call),
\*              "parse_server" (record fetched, _parse_server to run),
\*              "done" (parse returned), "failed" (an exception left parse)
\* server_list  what _get_server_list returned (line 262)
\* idx          position of the loop of line 271 in server_list
\* server_data  the record handed to _parse_server (line 272)
\* records      the records _get_server_info returned so far, in order
\* err          the exception that ended parse, NoError while there is none
\* inventory    self.inventory: groups, hosts, host variables, membership
\* trace        every call on client.service and self.inventory, in order
VARIABLES options, pc, server_list, idx, server_data, records, err,
          inventory, trace

vars == <<options, pc, server_list, idx, server_data, records, err,
          inventory, trace>>

(* ------------------------------ bounds -------------------------------- *)

\* Most servers the listing returns in one run.
MaxServers == 2

(* ------------------------- values of the inputs ------------------------ *)

\* Identifiers returned by getVServers, in listing order (distinct names).
ServerIds == <<"v101", "v102", "v103", "v104">>

Nicknames == {"", "web"}

Statuses == {"online", "offline", "paused"}

IpLists == {<< >>, <<"198.51.100.7", "203.0.113.1">>}

\* rebootRecommended as the web service reports it.
RebootFlags == {"True", "False"}

Prefixes == {"", "nc-"}

Suffixes == {"", ".example.org"}

AnsibleHostSuffixes == {"", ".lan"}

\* The documented choices of ansible_host_type.
HostTypeChoices == {"ip", "name", "suffix"}

\* Values ansible_host_type is configured with: the choices and one other.
HostTypes == HostTypeChoices \cup {"fqdn"}

Options ==
    [hostname_prefix : Prefixes,
     hostname_suffix : Suffixes,
     ansible_host_type : HostTypes,
     ansible_host_suffix : AnsibleHostSuffixes,
     group : {"netcup"}]

\* The detail record getVServerInformation returns for server `id`.
ServerRecords(id) ==
    [vServerName : {id},
     vServerNickname : Nicknames,
     status : Statuses,
     ips : IpLists,
     rebootRecommended : RebootFlags]

NoData ==
    [vServerName |-> "", vServerNickname |-> "", status |-> "",
     ips |-> << >>, rebootRecommended |-> ""]

(* ------------------------------- errors -------------------------------- *)

NoError == [kind |-> "none", msg |-> ""]

ListError == [kind |-> "AnsibleParserError", msg |-> "Unable to get server list"]

InfoError ==
    [kind |-> "AnsibleParserError", msg |-> "Unable to get server information"]

NoListError ==
    [kind |-> "AnsibleParserError",
     msg |-> "Did not receive a server list from Webservice."]

EmptyListError == [kind |-> "AnsibleParserError", msg |-> "Empty server list"]

IndexError == [kind |-> "IndexError", msg |-> "list index out of range"]

(* ------------------------- calls and the trace ------------------------- *)

\* One entry of the trace: the call, its arguments and the position in the
\* listing of the server it was made for (0: for none).  A remote call
\* carries its outcome: "ok" when it returned, "fault" when it raised.
Call(op, a, b, c, srv) == [op |-> op, a |-> a, b |-> b, c |-> c, srv |-> srv]

GetVServers(outcome) == Call("getVServers", "", "", outcome, 0)

GetVServerInformation(name, srv, outcome) ==
    Call("getVServerInformation", name, "", outcome, srv)

AddGroup(group) == Call("add_group", group, "", "", 0)

AddHost(host, srv) == Call("add_host", host, "", "", srv)

SetVariable(host, key, value, srv) == Call("set_variable", host, key, value, srv)

AddChild(group, host, srv) == Call("add_child", group, host, "", srv)

SinkOps == {"add_group", "add_host", "set_variable", "add_child"}

(* ----------------------------- the inventory --------------------------- *)

EmptyInventory ==
    [groups |-> {}, hosts |-> {}, hostvars |-> << >>, children |-> {}]

\* The effect of one inventory call on the inventory object the plugin is
\* handed: hosts and groups are keyed by name (adding a name again keeps
\* the one entry), a variable is one value per (host, key) and a later
\* value replaces it, membership is a (group, host) pair.
ApplyCall(inv, w) ==
    CASE w.op = "add_group" ->
           [inv EXCEPT !.groups = @ \cup {w.a}]
      [] w.op = "add_host" ->
           [inv EXCEPT !.hosts = @ \cup {w.a}]
      [] w.op = "set_variable" ->
           [inv EXCEPT !.hostvars =
               [p \in (DOMAIN @) \cup {<<w.a, w.b>>} |->
                   IF p = <<w.a, w.b>> THEN w.c ELSE @[p]]]
      [] w.op = "add_child" ->
           [inv EXCEPT !.children = @ \cup {<<w.a, w.b>>}]
      [] OTHER -> inv

RECURSIVE ApplyCalls(_, _)
ApplyCalls(inv, ws) ==
    IF ws = << >> THEN inv
    ELSE ApplyCalls(ApplyCall(inv, Head(ws)), Tail(ws))

(* --------------------------- _parse_server ---------------------------- *)

\* ServerName with the fallback to vServerName forgotten.
ServerNameNoFallback(data) ==
    (options.hostname_prefix \o data.vServerNickname) \o options.hostname_suffix

\* The inventory name of a server: prefix, then nickname (or the server
\* name when the nickname is empty), then suffix.
ServerName(data) ==
    LET srv_prefix == options.hostname_prefix
        base == IF Len(data.vServerNickname) > 0
                THEN data.vServerNickname
                ELSE data.vServerName
        srv_suffix == options.hostname_suffix
    IN  (srv_prefix \o base) \o srv_suffix

\* IsOnline testing for "offline" instead of "online".
IsOnlineNotOffline(data) == data.status # "offline"

IsOnline(data) == data.status = "online"

\* AnsibleHostCalls taking the last address of the list instead of the first.
AnsibleHostCallsLastIp(servername, data, srv) ==
    IF options.ansible_host_type \in {"ip", "suffix"}
    THEN IF Len(data.ips) = 0
         THEN [calls |-> << >>, err |-> IndexError]
         ELSE [calls |-> <<SetVariable(servername, "ansible_host",
                                       data.ips[Len(data.ips)], srv)>>,
               err |-> NoError]
    ELSE IF options.ansible_host_type = "name"
    THEN [calls |-> <<SetVariable(servername, "ansible_host", servername, srv)>>,
          err |-> NoError]
    ELSE [calls |-> << >>, err |-> NoError]

\* The match on ansible_host_type: the set_variable call it makes, if any,
\* and the error indexing an empty IP list raises.  No case matches a value
\* outside the three choices, and the statement then does nothing.
AnsibleHostCalls(servername, data, srv) ==
    CASE options.ansible_host_type = "ip" ->
           IF Len(data.ips) = 0
           THEN [calls |-> << >>, err |-> IndexError]
           ELSE [calls |-> <<SetVariable(servername, "ansible_host", data.ips[1], srv)>>,
                 err |-> NoError]
      [] options.ansible_host_type = "name" ->
           [calls |-> <<SetVariable(servername, "ansible_host", servername, srv)>>,
            err |-> NoError]
      [] options.ansible_host_type = "suffix" ->
           IF Len(data.ips) = 0
           THEN [calls |-> << >>, err |-> IndexError]
           ELSE [calls |-> <<SetVariable(servername, "ansible_host", data.ips[1], srv)>>,
                 err |-> NoError]
      [] OTHER -> [calls |-> << >>, err |-> NoError]

\* server_vars, written in the order of the dictionary.
ServerVarCalls(servername, data, srv) ==
    << SetVariable(servername, "netcup_server_name", data.vServerName, srv),
       SetVariable(servername, "netcup_server_nickname", data.vServerNickname, srv),
       SetVariable(servername, "netcup_reboot_recommended", data.rebootRecommended, srv),
       SetVariable(servername, "netcup_status", data.status, srv) >>

\* _parse_server(server_data): the inventory calls it makes, in order, and
\* the error it ends with (NoError when it returns).
ParseServer(data, srv) ==
    LET servername == ServerName(data)
        host == AnsibleHostCalls(servername, data, srv)
    IN  IF IsOnline(data)
        THEN IF host.err # NoError
             THEN [calls |-> <<AddHost(servername, srv)>>, err |-> host.err]
             ELSE [calls |-> ((<<AddHost(servername, srv)>> \o host.calls)
                                \o ServerVarCalls(servername, data, srv))
                                \o <<AddChild(options.group, servername, srv)>>,
                   err |-> NoError]
        ELSE [calls |-> << >>, err |-> NoError]

(* -------------------------------- parse -------------------------------- *)

\* CheckServerList with both checks left out.
CheckServerListNone(list) == NoError

\* The two checks of the listing parse makes before it writes anything.
CheckServerList(list) ==
    IF Len(list) = 0 THEN NoListError
    ELSE IF Len(list) = 0 THEN EmptyListError
    ELSE NoError

\* GroupCalls with add_group left out.
GroupCallsNone == << >>

\* The inventory calls parse makes between the checks and the loop.
GroupCalls == <<AddGroup(options.group)>>

Init ==
    /\ options \in Options
    /\ pc = "parse"
    /\ server_list = << >>
    /\ idx = 0
    /\ server_data = NoData
    /\ records = << >>
    /\ err = NoError
    /\ inventory = EmptyInventory
    /\ trace = << >>

\* parse calls _get_server_list: the listing call returns up to MaxServers
\* identifiers or raises.
get_server_list ==
    /\ pc = "parse"
    /\ \/ /\ trace' = Append(trace, GetVServers("fault"))
          /\ err' = ListError
          /\ pc' = "failed"
          /\ UNCHANGED server_list
       \/ \E n \in 0..MaxServers :
            /\ server_list' = SubSeq(ServerIds, 1, n)
            /\ trace' = Append(trace, GetVServers("ok"))
            /\ pc' = "listed"
            /\ UNCHANGED err
    /\ UNCHANGED <<options, idx, server_data, records, inventory>>

\* parse between the listing and the loop: the checks, then add_group.
add_group ==
    /\ pc = "listed"
    /\ LET e == CheckServerList(server_list)
           calls == IF e = NoError THEN GroupCalls ELSE << >>
       IN  /\ trace' = trace \o calls
           /\ inventory' = ApplyCalls(inventory, calls)
           /\ err' = e
           /\ pc' = IF e = NoError THEN "loop" ELSE "failed"
           /\ idx' = IF e = NoError THEN 1 ELSE idx
    /\ UNCHANGED <<options, server_list, server_data, records>>

\* get_server_info calling again after a fault instead of raising.
get_server_info_retry ==
    /\ pc = "loop"
    /\ idx <= Len(server_list)
    /\ \/ /\ trace' = Append(trace, GetVServerInformation(server_list[idx], idx, "fault"))
          /\ UNCHANGED <<server_data, records, pc>>
       \/ \E data \in ServerRecords(server_list[idx]) :
            /\ trace' = Append(trace, GetVServerInformation(server_list[idx], idx, "ok"))
            /\ server_data' = data
            /\ records' = Append(records, data)
            /\ pc' = "parse_server"
    /\ UNCHANGED <<options, server_list, idx, inventory, err>>

\* One turn of the loop, first half: the detail call for server_list[idx].
get_server_info ==
    /\ pc = "loop"
    /\ idx <= Len(server_list)
    /\ \/ /\ trace' = Append(trace, GetVServerInformation(server_list[idx], idx, "fault"))
          /\ err' = InfoError
          /\ pc' = "failed"
          /\ UNCHANGED <<server_data, records>>
       \/ \E data \in ServerRecords(server_list[idx]) :
            /\ trace' = Append(trace, GetVServerInformation(server_list[idx], idx, "ok"))
            /\ server_data' = data
            /\ records' = Append(records, data)
            /\ pc' = "parse_server"
            /\ UNCHANGED err
    /\ UNCHANGED <<options, server_list, idx, inventory>>

\* One turn of the loop, second half: _parse_server on the fetched record.
parse_server ==
    /\ pc = "parse_server"
    /\ LET r == ParseServer(server_data, idx)
       IN  /\ trace' = trace \o r.calls
           /\ inventory' = ApplyCalls(inventory, r.calls)
           /\ err' = r.err
           /\ pc' = IF r.err = NoError THEN "loop" ELSE "failed"
           /\ idx' = IF r.err = NoError THEN idx + 1 ELSE idx
    /\ UNCHANGED <<options, server_list, server_data, records>>

\* The loop is exhausted: parse returns.
parse_return ==
    /\ pc = "loop"
    /\ idx > Len(server_list)
    /\ pc' = "done"
    /\ UNCHANGED <<options, server_list, idx, server_data, records, err,
                   inventory, trace>>

Next ==
    \/ get_server_list
    \/ add_group
    \/ get_server_info
    \/ parse_server
    \/ parse_return

Spec == Init /\ [][Next]_vars

TypeOK ==
    /\ options \in Options
    /\ pc \in {"parse", "listed", "loop", "parse_server", "done", "failed"}
    /\ idx \in 0..(MaxServers + 1)
    /\ Len(records) <= Len(server_list)
    /\ (pc = "failed") = (err # NoError)

(* ------------------------ vocabulary of the claims --------------------- *)

\* The fetched records that are online.
OnlineIdx == {i \in DOMAIN records : records[i].status = "online"}

\* _parse_server has run on record i (to its end or to an error).
Processed(i) ==
    \/ i < Len(records)
    \/ i = Len(records) /\ pc # "parse_server"

\* _parse_server has returned for record i.
Completed(i) == i \in DOMAIN records /\ i < idx

\* The inventory calls made for record i, in order.
SinkCallsFor(i) ==
    LET Mine(w) == w.op \in SinkOps /\ w.srv = i
    IN  SelectSeq(trace, Mine)

\* Where in the trace the calls of one kind for record i are.
Pos(op, i) == {k \in DOMAIN trace : trace[k].op = op /\ trace[k].srv = i}

\* prefix + nickname + suffix, or prefix + name + suffix for an empty nickname.
ExpectedName(r) ==
    IF r.vServerNickname # ""
    THEN (options.hostname_prefix \o r.vServerNickname) \o options.hostname_suffix
    ELSE (options.hostname_prefix \o r.vServerName) \o options.hostname_suffix

\* The record whose calls wrote a host's variables last.
LastWriter(i) ==
    \A j \in DOMAIN records :
        (j > i /\ j \in OnlineIdx /\ Processed(j))
            => ExpectedName(records[j]) # ExpectedName(records[i])

(* -------------------------------- claims ------------------------------- *)

\* C1: processing a record whose status is not "online" writes nothing to
\* the inventory and raises nothing: the run goes on with the next server,
\* and no inventory call is ever made for such a record.
C1_NonOnlineSkipped ==
    /\ [](\A k \in DOMAIN trace :
            (trace[k].op \in SinkOps /\ trace[k].srv > 0)
                => records[trace[k].srv].status = "online")
    /\ [][(pc = "parse_server" /\ server_data.status # "online")
            => /\ inventory' = inventory
               /\ trace' = trace
               /\ err' = NoError
               /\ pc' = "loop"
               /\ idx' = idx + 1]_vars

C1_Witness ==
    /\ pc = "done"
    /\ \E i \in DOMAIN records :
         /\ records[i].status = "paused"
         /\ records[i].vServerNickname = "web"
         /\ records[i].ips # << >>
    /\ \E j \in DOMAIN records : records[j].status = "offline"

\* C2 (as stated): after a run that completes without error the inventory
\* holds one host per online record, every host is a child of exactly the
\* configured group, and no host was added for a non-online record.
C2_OneHostPerOnlineRecord ==
    pc = "done" =>
        /\ Cardinality(inventory.hosts) = Cardinality(OnlineIdx)
        /\ \A h \in inventory.hosts :
             {g \in inventory.groups : <<g, h>> \in inventory.children}
                 = {options.group}
        /\ \A i \in DOMAIN records :
             i \notin OnlineIdx => Pos("add_host", i) = {}

\* What holds in place of C2: the hosts of a completed run are the distinct
\* computed names of the online records, each in exactly the configured group.
HostsAreOnlineNames ==
    pc = "done" =>
        /\ inventory.hosts = {ExpectedName(records[i]) : i \in OnlineIdx}
        /\ \A h \in inventory.hosts :
             {g \in inventory.groups : <<g, h>> \in inventory.children}
                 = {options.group}
        /\ inventory.children \subseteq ({options.group} \X inventory.hosts)

\* C3: the name every online record is added under is prefix + nickname +
\* suffix, or prefix + vServerName + suffix when the nickname is empty.
C3_HostName ==
    /\ \A k \in DOMAIN trace :
         trace[k].op = "add_host"
             => trace[k].a = ExpectedName(records[trace[k].srv])
    /\ \A i \in OnlineIdx :
         Processed(i) =>
             /\ Cardinality(Pos("add_host", i)) = 1
             /\ ExpectedName(records[i]) \in inventory.hosts

C3_Witness ==
    /\ pc = "done"
    /\ options.hostname_prefix # ""
    /\ options.hostname_suffix # ""
    /\ \E i, j \in OnlineIdx :
         /\ records[i].vServerNickname = ""
         /\ records[j].vServerNickname # ""
         /\ Pos("add_host", i) # {}
         /\ Pos("add_host", j) # {}

\* C4 (as stated): with ansible_host_type outside ip/name/suffix, processing
\* an online record ends the run with an InvalidMode error, and no run
\* completes with a host that has no ansible_host variable.
C4_InvalidModeAborts ==
    /\ (options.ansible_host_type \notin HostTypeChoices
            /\ \E i \in OnlineIdx : Processed(i))
           => (pc = "failed" /\ err.kind = "InvalidMode")
    /\ pc = "done" =>
           \A h \in inventory.hosts :
               <<h, "ansible_host">> \in DOMAIN inventory.hostvars

\* The value C5 gives ansible_host for record r.
C5_Address(r) ==
    CASE options.ansible_host_type = "ip" -> r.ips[1]
      [] options.ansible_host_type = "name" -> ExpectedName(r)
      [] options.ansible_host_type = "suffix" -> r.ips[1]

DocumentedSuffixAddress(r) ==
    LET base == IF r.vServerNickname # "" THEN r.vServerNickname ELSE r.vServerName
        sfx == IF options.ansible_host_suffix # ""
               THEN options.ansible_host_suffix
               ELSE options.hostname_suffix
    IN  base \o sfx

\* C6 (as stated): with type "suffix" every ansible_host written is the
\* documented name-and-suffix address, and so not the primary IP.
C6_SuffixAddress ==
    options.ansible_host_type = "suffix" =>
        \A k \in DOMAIN trace :
            (trace[k].op = "set_variable" /\ trace[k].b = "ansible_host")
                => /\ trace[k].c = DocumentedSuffixAddress(records[trace[k].srv])
                   /\ trace[k].c # records[trace[k].srv].ips[1]

\* C7: a listing that returns no server ends parse with an
\* AnsibleParserError raised by parse itself, before any detail call and
\* before any inventory call; no run with an empty listing completes.
C7_EmptyListing ==
    /\ [](Len(server_list) = 0 =>
            /\ inventory = EmptyInventory
            /\ pc # "done"
            /\ \A k \in DOMAIN trace : trace[k].op = "getVServers")
    /\ [][(pc = "listed" /\ Len(server_list) = 0)
            => /\ pc' = "failed"
               /\ err'.kind = "AnsibleParserError"
               /\ err' \notin {ListError, InfoError}
               /\ trace' = trace
               /\ inventory' = EmptyInventory]_vars

C7_Witness ==
    /\ pc = "failed"
    /\ trace = <<GetVServers("ok")>>
    /\ server_list = << >>
    /\ err.kind = "AnsibleParserError"

\* C8: a remote call that faults is the last call of the run: parse is in
\* error, nothing is fetched or written after it, and a faulting listing
\* leaves the inventory empty; every remote call is made at most once per
\* server; what was written for earlier servers is still in the inventory.
C8_FailFast ==
    /\ \A k \in DOMAIN trace :
         (trace[k].op \in {"getVServers", "getVServerInformation"}
              /\ trace[k].c = "fault")
             => /\ k = Len(trace)
                /\ pc = "failed"
                /\ err.kind = "AnsibleParserError"
                /\ trace[k].op = "getVServers" => inventory = EmptyInventory
    /\ Cardinality({k \in DOMAIN trace : trace[k].op = "getVServers"}) <= 1
    /\ \A i \in 1..Len(server_list) :
         Cardinality(Pos("getVServerInformation", i)) <= 1
    /\ \A k \in DOMAIN trace :
         trace[k].op = "getVServerInformation"
             => \A j \in DOMAIN trace :
                    (j < k /\ trace[j].op = "getVServerInformation")
                        => trace[j].srv < trace[k].srv /\ trace[j].c = "ok"
    /\ pc = "failed" =>
         \A i \in OnlineIdx :
             Completed(i) =>
                 /\ ExpectedName(records[i]) \in inventory.hosts
                 /\ <<options.group, ExpectedName(records[i])>> \in inventory.children

C8_Witness ==
    /\ pc = "failed"
    /\ err = InfoError
    /\ idx = 2
    /\ trace[Len(trace)] = GetVServerInformation(server_list[2], 2, "fault")
    /\ inventory.hosts # {}

\* C9: add_group for the configured group comes before every add_host, and
\* the group is in the inventory at the end of every run whose listing
\* returned a server, also when no host was added.
C9_GroupFirst ==
    /\ \A k \in DOMAIN trace :
         trace[k].op = "add_host"
             => \E j \in 1..(k - 1) : trace[j] = AddGroup(options.group)
    /\ (pc \in {"done", "failed"} /\ Len(server_list) >= 1)
           => options.group \in inventory.groups

C9_Witness ==
    /\ pc = "done"
    /\ Len(records) = MaxServers
    /\ OnlineIdx = {}
    /\ inventory.hosts = {}
    /\ inventory.children = {}
    /\ inventory.groups = {options.group}

\* The calls C10 lists for record i, in its order.
C10_CallsInOrder(i) ==
    LET r == records[i]
        n == ExpectedName(r)
        calls == SinkCallsFor(i)
    IN  /\ Len(calls) = 7
        /\ calls[1] = AddHost(n, i)
        /\ calls[2].op = "set_variable"
        /\ calls[2].a = n
        /\ calls[2].b = "ansible_host"
        /\ calls[3] = SetVariable(n, "netcup_server_name", r.vServerName, i)
        /\ calls[4] = SetVariable(n, "netcup_server_nickname", r.vServerNickname, i)
        /\ calls[5] = SetVariable(n, "netcup_reboot_recommended", r.rebootRecommended, i)
        /\ calls[6] = SetVariable(n, "netcup_status", r.status, i)
        /\ calls[7] = AddChild(options.group, n, i)

\* Every inventory call for record i lies after the detail call for i and
\* before the detail call for any later server.
C10_NotInterleaved(i) ==
    \A k \in DOMAIN trace :
        (trace[k].op \in SinkOps /\ trace[k].srv = i)
            => /\ \E f \in Pos("getVServerInformation", i) : f < k
               /\ \A f \in DOMAIN trace :
                      (trace[f].op = "getVServerInformation" /\ trace[f].srv > i)
                          => k < f

\* C10 (as stated): for each online record the calls are add_host, set
\* ansible_host, the four netcup_ variables copied from the record,
\* add_child, and the calls of two servers never interleave.
C10_WriteOrder ==
    /\ \A i \in OnlineIdx : Completed(i) => C10_CallsInOrder(i)
    /\ \A i \in DOMAIN records : C10_NotInterleaved(i)

\* What holds of C10 for the documented choices of ansible_host_type.
WriteOrderForDocumentedTypes ==
    options.ansible_host_type \in HostTypeChoices => C10_WriteOrder

\* The part of C10 that holds for every value of ansible_host_type: the
\* calls made are a subsequence of the listed order, never interleaved.
WriteOrderWithoutAnsibleHost ==
    /\ \A i \in OnlineIdx :
         (Completed(i) /\ options.ansible_host_type \notin HostTypeChoices) =>
             LET r == records[i]
                 n == ExpectedName(r)
             IN  SinkCallsFor(i) =
                     <<AddHost(n, i),
                       SetVariable(n, "netcup_server_name", r.vServerName, i),
                       SetVariable(n, "netcup_server_nickname", r.vServerNickname, i),
                       SetVariable(n, "netcup_reboot_recommended", r.rebootRecommended, i),
                       SetVariable(n, "netcup_status", r.status, i),
                       AddChild(options.group, n, i)>>
    /\ \A i \in DOMAIN records : C10_NotInterleaved(i)

\* The inventory is what the inventory calls of the trace make of an empty one.
InventoryFromTrace ==
    LET Sink(w) == w.op \in SinkOps
    IN  inventory = ApplyCalls(EmptyInventory, SelectSeq(trace, Sink))

====
